---- MODULE Spec2Model ----
(***************************************************************************)
(* A model of the MultiHeadAttention class of notebook.ipynb.               *)
(*                                                                         *)
(* Tensors are strided views over a flat storage, as in the tensor library *)
(* the class calls, so that view / transpose / contiguous are index        *)
(* computations and not identities.  Numbers are exact rationals, except   *)
(* where the code leaves the rationals: the division by sqrt(d_k) rounds   *)
(* to a fixed-point grid and exp is a finite-precision table that          *)
(* underflows to 0, as floating-point exp does.                            *)
(***************************************************************************)
EXTENDS Integers, Sequences, FiniteSets, TLC

\* ------------------------------------------------------------------ bounds
MaxDModel == 4
MaxHeads == 4
MaxBatch == 2
MaxSeq == 2
MaxInit == 1
MaxPattern == 2
MaxCalls == 2
Big == 32000

\* ------------------------------------------------- numbers of the library
\* The constant masked_fill writes where mask == 0.
NegFill == -1000000000
\* Resolution of a score: scores are multiples of 1/Fx.
Fx == 4
\* Resolution of math.sqrt: its value is a multiple of 1/SqrtOne.
SqrtOne == 100
\* exp(0) in the units of the exp table.
ExpOne == 100
\* exp(x) is 0 for every x < -ExpUnderflow (the table reaches 0 before).
ExpUnderflow == 12

\* Body of the value of v, and of the values of a and b: the argument is
\* evaluated once, before the body, as the arguments of a Python call are.
Bind(v, Body(_)) == CHOOSE r \in {Body(x) : x \in {v}} : TRUE
Bind2(a, b, Body(_, _)) == CHOOSE r \in {Body(x, y) : x \in {a}, y \in {b}} : TRUE

Abs(x) == IF x < 0 THEN -x ELSE x

RECURSIVE GCD(_, _)
GCD(a, b) == IF b = 0 THEN a ELSE GCD(b, a % b)

\* The rational n/d (d > 0) in lowest terms.
Rat(n, d) == Bind(GCD(Abs(n), d), LAMBDA g : [n |-> n \div g, d |-> d \div g])
RInt(i) == [n |-> i, d |-> 1]
RAdd(a0, b0) == Bind2(a0, b0, LAMBDA a, b : Rat(a.n * b.d + b.n * a.d, a.d * b.d))
RMul(a0, b0) == Bind2(a0, b0, LAMBDA a, b : Rat(a.n * b.n, a.d * b.d))

RECURSIVE RSum(_)
RSum(s) == IF s = <<>> THEN RInt(0) ELSE RAdd(Head(s), RSum(Tail(s)))

RECURSIVE ISum(_)
ISum(s) == IF s = <<>> THEN 0 ELSE Head(s) + ISum(Tail(s))

\* math.sqrt(k) in units of 1/SqrtOne, rounded down.
SqrtFx(k) ==
    CHOOSE r \in 0..(k * SqrtOne) :
        r * r <= k * SqrtOne * SqrtOne /\ (r + 1) * (r + 1) > k * SqrtOne * SqrtOne

SqrtTable == [k \in 1..(MaxDModel + 1) |-> SqrtFx(k)]

\* x / math.sqrt(k) for a rational x, rounded down to the score grid: the
\* score i + f/Fx with 0 <= f < Fx.  The division is split so that no
\* intermediate exceeds |x|.
DivSqrt(x, k) ==
    Bind(x.d * SqrtTable[k], LAMBDA m :
        LET q == x.n \div m
            r == x.n % m
        IN  [i |-> q * SqrtOne + (r * SqrtOne) \div m,
             f |-> ((((r * SqrtOne) % m) * Fx) \div m)])

FixLess(a, b) == a.i < b.i \/ (a.i = b.i /\ a.f < b.f)

RECURSIVE FixMax(_)
FixMax(s) ==
    IF Len(s) = 1 THEN s[1]
    ELSE Bind(FixMax(Tail(s)), LAMBDA m : IF FixLess(m, s[1]) THEN s[1] ELSE m)

\* exp(-k/Fx) in units of 1/ExpOne: repeated multiplication by exp(-1/4),
\* rounded down; it reaches 0 (underflow) after finitely many steps.
RECURSIVE ExpSteps(_)
ExpSteps(k) == IF k = 0 THEN ExpOne ELSE (ExpSteps(k - 1) * 7788) \div 10000

ExpTable == [k \in 0..((ExpUnderflow + 1) * Fx) |-> ExpSteps(k)]

\* exp(a - mx) for scores a <= mx.
ExpFx(a, mx) ==
    IF a.i < mx.i - ExpUnderflow THEN 0
    ELSE ExpTable[(mx.i - a.i) * Fx + (mx.f - a.f)]

\* ------------------------------------------------------------------ tensors
RECURSIVE Prod(_)
Prod(s) == IF s = <<>> THEN 1 ELSE Head(s) * Prod(Tail(s))

Numel(shape) == Prod(shape)

\* Strides of a row-major (contiguous) tensor of this shape.
RowMajor(shape) ==
    [i \in 1..Len(shape) |-> Prod(SubSeq(shape, i + 1, Len(shape)))]

\* The index tuple (0-based) of flat position p (0-based) in row-major order.
Unravel(p, shape) ==
    LET st == RowMajor(shape)
    IN  [i \in 1..Len(shape) |-> (p \div st[i]) % shape[i]]

IndexSet(shape) == {Unravel(p, shape) : p \in 0..(Numel(shape) - 1)}

\* Offset into the storage of an index tuple.
Offset(t, idx) == ISum([i \in 1..Len(idx) |-> idx[i] * t.stride[i]])

At(t, idx) == t.data[1 + Offset(t, idx)]

\* A fresh contiguous tensor whose element at idx is F(idx).
MkTensor(shape0, F(_)) ==
    Bind2(shape0, RowMajor(shape0), LAMBDA shape, st :
        [shape |-> shape,
         stride |-> st,
         data |-> [p \in 1..Numel(shape) |->
                     F([i \in 1..Len(shape) |-> ((p - 1) \div st[i]) % shape[i]])]])

\* Tensor.size()
Size(t) == t.shape

\* Tensor.is_contiguous(): dimensions of size 1 do not count.
IsContiguous(t) ==
    Bind(RowMajor(t.shape), LAMBDA st :
        \A i \in 1..Len(t.shape) : t.shape[i] = 1 \/ t.stride[i] = st[i])

\* Tensor.contiguous(): the elements copied into a fresh row-major storage.
ContiguousOf(t0) == Bind(t0, LAMBDA t : MkTensor(t.shape, LAMBDA idx : At(t, idx)))

NormDim(t, d) == IF d < 0 THEN d + Len(t.shape) ELSE d

\* Tensor.transpose(a, b): the same storage, two dimensions exchanged.
Transpose(t0, a, b) ==
    Bind(t0, LAMBDA t :
        LET x == NormDim(t, a) + 1
            y == NormDim(t, b) + 1
            Swap(s) == [i \in 1..Len(s) |-> IF i = x THEN s[y] ELSE IF i = y THEN s[x] ELSE s[i]]
        IN  [shape |-> Swap(t.shape), stride |-> Swap(t.stride), data |-> t.data])

ViewError == [error |-> "view size is not compatible with input tensor's size and stride"]

IsTensor(t) == DOMAIN t = {"shape", "stride", "data"}

\* The new shape only splits the last dimension of t in two.
SplitsLast(t, shape) ==
    LET n == Len(t.shape)
    IN  /\ Len(shape) = n + 1
        /\ SubSeq(shape, 1, n - 1) = SubSeq(t.shape, 1, n - 1)
        /\ shape[n] * shape[n + 1] = t.shape[n]

\* Tensor.view(shape): the same storage under another shape.  A contiguous
\* tensor takes any shape of the same number of elements; a strided one can
\* always have a dimension split; the other strided cases are refused here
\* (the library accepts a few more, which the class never asks for).
View(t0, shape0) ==
    Bind2(t0, shape0, LAMBDA t, shape :
        IF Numel(shape) # Numel(t.shape) THEN ViewError
        ELSE IF IsContiguous(t)
        THEN [shape |-> shape, stride |-> RowMajor(shape), data |-> t.data]
        ELSE IF SplitsLast(t, shape)
        THEN LET n == Len(t.shape)
             IN  [shape |-> shape,
                  stride |-> [i \in 1..(n + 1) |->
                                IF i < n THEN t.stride[i]
                                ELSE IF i = n THEN shape[n + 1] * t.stride[n]
                                ELSE t.stride[n]],
                  data |-> t.data]
        ELSE ViewError)

\* Two tensors with the same shape and the same element at every index.
SameTensor(a0, b0) ==
    Bind2(a0, b0, LAMBDA a, b :
        /\ IsTensor(a) /\ IsTensor(b)
        /\ a.shape = b.shape
        /\ \A idx \in IndexSet(a.shape) : At(a, idx) = At(b, idx))

\* x with the last index replaced by j.
WithLast(idx, j) == [idx EXCEPT ![Len(idx)] = j]

ShapeError == [error |-> "shapes cannot be multiplied or broadcast"]

\* torch.matmul of two 4-dimensional tensors: the matrix product over the
\* last two dimensions, batched over the first two.
Matmul(A0, B0) ==
    Bind2(A0, B0, LAMBDA A, B :
        IF ~(IsTensor(A) /\ IsTensor(B)) THEN ShapeError
        ELSE IF \/ A.shape[1] # B.shape[1] \/ A.shape[2] # B.shape[2]
                \/ A.shape[4] # B.shape[3]
        THEN ShapeError
        ELSE MkTensor(<<A.shape[1], A.shape[2], A.shape[3], B.shape[4]>>,
                 LAMBDA idx : RSum([k \in 1..A.shape[4] |->
                     RMul(At(A, <<idx[1], idx[2], idx[3], k - 1>>),
                          At(B, <<idx[1], idx[2], k - 1, idx[4]>>))])))

\* tensor / math.sqrt(k), element by element.
DivSqrtAll(t0, k0) ==
    Bind2(t0, k0, LAMBDA t, k :
        IF ~IsTensor(t) THEN t
        ELSE MkTensor(t.shape, LAMBDA idx : DivSqrt(At(t, idx), k)))

\* A mask is None or a tensor of integers.
NoneMask == [none |-> TRUE]
IsNone(m) == DOMAIN m = {"none"}

\* mshape broadcasts to shape: aligned at the last dimension, every
\* dimension of the mask is 1 or the tensor's.
Broadcastable(mshape, shape) ==
    /\ Len(mshape) <= Len(shape)
    /\ \A i \in 1..Len(mshape) :
          LET d == mshape[i]
              e == shape[Len(shape) - Len(mshape) + i]
          IN  d = 1 \/ d = e

\* The element of the broadcast mask at an index of the larger tensor.
BroadcastAt(m, idx) ==
    LET off == Len(idx) - Len(m.shape)
    IN  At(m, [i \in 1..Len(m.shape) |->
                 IF m.shape[i] = 1 THEN 0 ELSE idx[off + i]])

\* masked_fill with the condition inverted: mask != 0.
MaskedFillZero_inverted(t0, mask0, value) ==
    Bind2(t0, mask0, LAMBDA t, mask :
        IF ~IsTensor(t) THEN t
        ELSE IF ~Broadcastable(mask.shape, t.shape) THEN ShapeError
        ELSE MkTensor(t.shape,
                 LAMBDA idx : IF BroadcastAt(mask, idx) # 0 THEN value ELSE At(t, idx)))

\* tensor.masked_fill(mask == 0, value)
MaskedFillZero(t0, mask0, value) ==
    Bind2(t0, mask0, LAMBDA t, mask :
        IF ~IsTensor(t) THEN t
        ELSE IF ~Broadcastable(mask.shape, t.shape) THEN ShapeError
        ELSE MkTensor(t.shape,
                 LAMBDA idx : IF BroadcastAt(mask, idx) = 0 THEN value ELSE At(t, idx)))

\* The row of t along its last dimension through idx.
LastRow(t, idx) ==
    [j \in 1..t.shape[Len(t.shape)] |-> At(t, WithLast(idx, j - 1))]

\* torch.softmax(t, dim=1): normalised along the heads.
SoftmaxLast_over_heads(t0) ==
    Bind(t0, LAMBDA t :
        IF ~IsTensor(t) THEN t
        ELSE MkTensor(t.shape,
                 LAMBDA idx :
                     Bind([h \in 1..t.shape[2] |-> At(t, <<idx[1], h - 1, idx[3], idx[4]>>)],
                          LAMBDA col :
                     Bind(FixMax(col), LAMBDA mx :
                     Bind([h \in 1..Len(col) |-> ExpFx(col[h], mx)], LAMBDA e :
                         Rat(e[idx[2] + 1], ISum(e)))))))

\* torch.softmax(t, dim=-2): normalised along the queries, not the keys.
SoftmaxLast_over_queries(t0) ==
    Bind(t0, LAMBDA t :
        IF ~IsTensor(t) THEN t
        ELSE MkTensor(t.shape,
                 LAMBDA idx :
                     Bind([q \in 1..t.shape[3] |-> At(t, <<idx[1], idx[2], q - 1, idx[4]>>)],
                          LAMBDA col :
                     Bind(FixMax(col), LAMBDA mx :
                     Bind([q \in 1..Len(col) |-> ExpFx(col[q], mx)], LAMBDA e :
                         Rat(e[idx[3] + 1], ISum(e)))))))

\* torch.softmax(t, dim=-1) of a tensor of scores: for each row, exp of
\* (score - row maximum) divided by the sum of the row's exps.
SoftmaxLast(t0) ==
    Bind(t0, LAMBDA t :
        IF ~IsTensor(t) THEN t
        ELSE MkTensor(t.shape,
                 LAMBDA idx :
                     Bind(LastRow(t, idx), LAMBDA row :
                     Bind(FixMax(row), LAMBDA mx :
                     Bind([j \in 1..Len(row) |-> ExpFx(row[j], mx)], LAMBDA e :
                         Rat(e[idx[Len(idx)] + 1], ISum(e)))))))

\* ------------------------------------------------------------- nn.Linear
\* nn.Linear(in, out): a weight of shape (out, in) and a bias of shape
\* (out), initialised by the library; the seed stands for its random draw.
NewLinear(inF, outF, seed) ==
    [weight |-> [o \in 1..outF |-> [i \in 1..inF |->
                    ((o * o * (seed + 1) + i * i * (seed + 2) + o * i + seed) % 5) - 2]],
     bias |-> [o \in 1..outF |-> (o + seed) % 2]]

\* layer(x): x W^T + b over the last dimension of x.
Linear(layer0, x0) ==
    Bind2(layer0, x0, LAMBDA layer, x :
        IF ~IsTensor(x) THEN x
        ELSE LET n == Len(x.shape)
                 inF == Len(layer.weight[1])
                 outF == Len(layer.weight)
             IN  IF x.shape[n] # inF THEN ShapeError
                 ELSE MkTensor([x.shape EXCEPT ![n] = outF],
                          LAMBDA idx :
                              RAdd(RSum([i \in 1..inF |->
                                       RMul(At(x, WithLast(idx, i - 1)),
                                            RInt(layer.weight[idx[n] + 1][i]))]),
                                   RInt(layer.bias[idx[n] + 1]))))

\* --------------------------------------------------- MultiHeadAttention
\* An object is the record of its attributes; before __init__ has set any
\* it has none.
NoAttrs == [x \in {} |-> 0]

\* __init__ with d_k set to d_model, the division forgotten.
MultiHeadAttention_undivided(d_model, num_heads, seed) ==
    IF d_model % num_heads # 0
    THEN [raised |-> "AssertionError", attrs |-> NoAttrs]
    ELSE [raised |-> "none",
          attrs |-> [d_model |-> d_model,
                     num_heads |-> num_heads,
                     d_k |-> d_model,
                     Wq |-> NewLinear(d_model, d_model, seed),
                     Wk |-> NewLinear(d_model, d_model, seed + 1),
                     Wv |-> NewLinear(d_model, d_model, seed + 2),
                     Wo |-> NewLinear(d_model, d_model, seed + 3)]]

\* __init__ with the assertion after the assignments instead of before.
MultiHeadAttention_late_assert(d_model, num_heads, seed) ==
    [raised |-> IF d_model % num_heads # 0 THEN "AssertionError" ELSE "none",
     attrs |-> [d_model |-> d_model,
                num_heads |-> num_heads,
                d_k |-> d_model \div num_heads,
                Wq |-> NewLinear(d_model, d_model, seed),
                Wk |-> NewLinear(d_model, d_model, seed + 1),
                Wv |-> NewLinear(d_model, d_model, seed + 2),
                Wo |-> NewLinear(d_model, d_model, seed + 3)]]

\* MultiHeadAttention.__init__: the result of the constructor call, the
\* exception it raised (or "none") and the attributes it left on self.
MultiHeadAttention(d_model, num_heads, seed) ==
    IF d_model % num_heads # 0
    THEN [raised |-> "AssertionError", attrs |-> NoAttrs]
    ELSE [raised |-> "none",
          attrs |-> [d_model |-> d_model,
                     num_heads |-> num_heads,
                     d_k |-> d_model \div num_heads,
                     Wq |-> NewLinear(d_model, d_model, seed),
                     Wk |-> NewLinear(d_model, d_model, seed + 1),
                     Wv |-> NewLinear(d_model, d_model, seed + 2),
                     Wo |-> NewLinear(d_model, d_model, seed + 3)]]

\* scaled_dot_product_attention with the result of masked_fill dropped
\* (masked_fill returns a new tensor; it does not write in place).
sdpa_locals_fill_dropped(self, Q, K, V, mask) ==
    Bind(DivSqrtAll(Matmul(Q, Transpose(K, -2, -1)), self.d_k), LAMBDA scores :
    Bind(SoftmaxLast(scores), LAMBDA attention_after_softmax :
        [scores |-> scores,
         attention |-> scores,
         attention_after_softmax |-> attention_after_softmax,
         result |-> Matmul(attention_after_softmax, V)]))

\* The locals of scaled_dot_product_attention after its last line.
sdpa_locals(self, Q, K, V, mask) ==
    Bind(DivSqrtAll(Matmul(Q, Transpose(K, -2, -1)), self.d_k), LAMBDA scores :
    Bind(IF IsNone(mask) THEN scores
         ELSE MaskedFillZero(scores, mask, [i |-> NegFill, f |-> 0]), LAMBDA attention :
    Bind(SoftmaxLast(attention), LAMBDA attention_after_softmax :
        [scores |-> scores,
         attention |-> attention,
         attention_after_softmax |-> attention_after_softmax,
         result |-> Matmul(attention_after_softmax, V)])))

scaled_dot_product_attention(self, Q, K, V, mask) ==
    sdpa_locals(self, Q, K, V, mask).result

\* split_heads that views x as (batch, num_heads, seq, d_k) directly,
\* without the transpose.
split_heads_view_only(self, x0) ==
    Bind(x0, LAMBDA x :
        View(x, <<Size(x)[1], self.num_heads, Size(x)[2], self.d_k>>))

\* split_heads that forgets the transpose.
split_heads_no_transpose(self, x0) ==
    Bind(x0, LAMBDA x :
        View(x, <<Size(x)[1], Size(x)[2], self.num_heads, self.d_k>>))

split_heads(self, x0) ==
    Bind(x0, LAMBDA x :
        LET batch_size == Size(x)[1]
            seq_length == Size(x)[2]
        IN  Bind(View(x, <<batch_size, seq_length, self.num_heads, self.d_k>>),
                 LAMBDA v : IF IsTensor(v) THEN Transpose(v, 1, 2) ELSE v))

\* combine_heads that forgets the transpose.
combine_heads_no_transpose(self, x0) ==
    Bind(x0, LAMBDA x :
        View(ContiguousOf(x), <<Size(x)[1], Size(x)[3], self.d_model>>))

combine_heads(self, x0) ==
    Bind(x0, LAMBDA x :
        LET batch_size == Size(x)[1]
            sequence_length == Size(x)[3]
        IN  View(ContiguousOf(Transpose(x, 1, 2)),
                 <<batch_size, sequence_length, self.d_model>>))

\* The part of forward between the projections: the projected Q, K and V
\* are split into heads, attended to and combined again.
attend_locals(self, Qp, Kp, Vp, mask) ==
    Bind(split_heads(self, Qp), LAMBDA Qs :
    Bind(split_heads(self, Kp), LAMBDA Ks :
    Bind(split_heads(self, Vp), LAMBDA Vs :
    Bind(sdpa_locals(self, Qs, Ks, Vs, mask), LAMBDA inner :
        [Q |-> Qs, K |-> Ks, V |-> Vs,
         inner |-> inner,
         attn_output |-> inner.result,
         combined |-> IF IsTensor(inner.result)
                      THEN combine_heads(self, inner.result)
                      ELSE inner.result]))))

\* The locals of forward after its last line.
forward_locals(self, Q, K, V, mask) ==
    Bind(attend_locals(self, Linear(self.Wq, Q), Linear(self.Wk, K),
                       Linear(self.Wv, V), mask), LAMBDA a :
        [Q |-> a.Q, K |-> a.K, V |-> a.V,
         inner |-> a.inner,
         attn_output |-> a.attn_output,
         combined |-> a.combined,
         result |-> Linear(self.Wo, a.combined)])

forward(self, Q, K, V, mask) == forward_locals(self, Q, K, V, mask).result

\* ------------------------------------------------------------ the callers
VARIABLES self, ctor, env, last, calls

vars == <<self, ctor, env, last, calls>>

\* The masks a caller passes: None, all ones, a causal (lower triangular)
\* mask, a mask of the values 0, 1, 2, all zeros, and a mask that keeps one
\* key position only.
NoMaskChoice == [kind |-> "none", key |-> 0]

MaskChoices(seq_k) ==
    {[kind |-> k, key |-> 0] : k \in {"none", "ones", "causal", "mixed", "zeros"}}
        \cup {[kind |-> "only", key |-> k] : k \in 0..(seq_k - 1)}

\* The inputs of the calls of one behaviour: which method the caller uses
\* (split_heads and combine_heads, scaled_dot_product_attention, or forward)
\* and its arguments: the sizes, the pattern of the values, whether x is a
\* transposed view, whether Q and K carry values of large magnitude, and the
\* mask.  Pattern 0 is self-attention (Q, K and V are the same tensor).
HeadsEnvs ==
    [call : {"heads"}, batch : 1..MaxBatch, seq_q : 1..MaxSeq, seq_k : {1},
     pattern : 0..MaxPattern, transposed : BOOLEAN, spike : {FALSE},
     mask : {NoMaskChoice}]

AttentionEnvs ==
    UNION {[call : {"attention"}, batch : 1..MaxBatch, seq_q : 1..MaxSeq, seq_k : {sk},
            pattern : 0..MaxPattern, transposed : {FALSE}, spike : {FALSE},
            mask : MaskChoices(sk)]
           \cup
           [call : {"attention"}, batch : 1..MaxBatch, seq_q : 1..MaxSeq, seq_k : {sk},
            pattern : {1}, transposed : {FALSE}, spike : {TRUE},
            mask : MaskChoices(sk)] : sk \in 1..MaxSeq}

ForwardEnvs ==
    UNION {[call : {"forward"}, batch : 1..MaxBatch, seq_q : 1..MaxSeq, seq_k : {sk},
            pattern : 0..MaxPattern, transposed : {FALSE}, spike : {FALSE},
            mask : MaskChoices(sk)] : sk \in 1..MaxSeq}

Envs == HeadsEnvs \cup AttentionEnvs \cup ForwardEnvs

PatVal(p, i) == IF p = 0 THEN i ELSE ((i * p + (i \div 2) + p * p) % 5) - 2

\* A contiguous tensor of this shape filled with pattern p.
Input(p, shape) ==
    [shape |-> shape,
     stride |-> RowMajor(shape),
     data |-> [q \in 1..Numel(shape) |-> RInt(PatVal(p, q - 1))]]

PatK(e) == IF e.pattern = 0 THEN 0 ELSE e.pattern + 1
PatV(e) == IF e.pattern = 0 THEN 0 ELSE e.pattern + 2

SpikeQ(e, t0) ==
    Bind(t0, LAMBDA t :
        IF ~e.spike THEN t
        ELSE MkTensor(t.shape, LAMBDA idx :
                 IF idx[Len(idx)] = 0 THEN RInt(Big) ELSE At(t, idx)))

SpikeK(e, t0) ==
    Bind(t0, LAMBDA t :
        IF ~e.spike THEN t
        ELSE MkTensor(t.shape, LAMBDA idx :
                 IF idx[Len(idx)] = 0
                 THEN RInt(IF idx[Len(idx) - 1] % 2 = 0 THEN -Big ELSE Big)
                 ELSE At(t, idx)))

MaskTensor(e) ==
    LET m == e.mask
    IN  CASE m.kind = "none" -> NoneMask
          [] m.kind = "ones" -> MkTensor(<<e.seq_q, e.seq_k>>, LAMBDA idx : 1)
          [] m.kind = "causal" ->
                MkTensor(<<e.seq_q, e.seq_k>>,
                    LAMBDA idx : IF idx[2] <= idx[1] THEN 1 ELSE 0)
          [] m.kind = "mixed" ->
                MkTensor(<<e.seq_q, e.seq_k>>,
                    LAMBDA idx : (idx[1] + idx[2]) % 3)
          [] m.kind = "zeros" -> MkTensor(<<1, e.seq_k>>, LAMBDA idx : 0)
          [] m.kind = "only" ->
                MkTensor(<<e.batch, 1, 1, e.seq_k>>,
                    LAMBDA idx : IF idx[4] = m.key THEN 1 ELSE 0)

NoCall == [op |-> "none"]

\* The constructor call made so far: its arguments and how it ended.
NotCalled == [status |-> "none", d_model |-> 0, num_heads |-> 0]

Init ==
    /\ self = NoAttrs
    /\ ctor = NotCalled
    /\ env \in Envs
    /\ last = NoCall
    /\ calls = 0

\* module = MultiHeadAttention(d_model, num_heads)
Construct(d_model, num_heads, seed) ==
    /\ ctor.status = "none"
    /\ \E r \in {MultiHeadAttention(d_model, num_heads, seed)} :
           /\ self' = r.attrs
           /\ ctor' = [status |-> IF r.raised = "none" THEN "ok" ELSE r.raised,
                       d_model |-> d_model, num_heads |-> num_heads]
    /\ UNCHANGED <<env, last, calls>>

\* module.split_heads(x), x of shape (batch, seq_len, d_model), contiguous
\* or itself a transposed view.
CallSplitHeads ==
    /\ ctor.status = "ok" /\ calls < MaxCalls /\ env.call = "heads"
    /\ \E x \in {IF env.transposed
                  THEN Transpose(Input(env.pattern, <<env.seq_q, env.batch, self.d_model>>), 0, 1)
                  ELSE Input(env.pattern, <<env.batch, env.seq_q, self.d_model>>)} :
            last' = [op |-> "split_heads", x |-> x, result |-> split_heads(self, x)]
    /\ calls' = calls + 1
    /\ UNCHANGED <<self, ctor, env>>

\* module.combine_heads(y) on the result of the split_heads call before.
CallCombineAfterSplit ==
    /\ ctor.status = "ok" /\ calls < MaxCalls /\ env.call = "heads"
    /\ last.op = "split_heads"
    /\ last' = [op |-> "combine_heads", x |-> last.result, origin |-> last.x,
                result |-> combine_heads(self, last.result)]
    /\ calls' = calls + 1
    /\ UNCHANGED <<self, ctor, env>>

\* module.combine_heads(x), x a contiguous tensor of shape
\* (batch, num_heads, seq_len, d_k).
CallCombineHeads ==
    /\ ctor.status = "ok" /\ calls < MaxCalls /\ env.call = "heads"
    /\ ~env.transposed
    /\ \E x \in {Input(env.pattern, <<env.batch, self.num_heads, env.seq_q, self.d_k>>)} :
            last' = [op |-> "combine_heads", x |-> x, origin |-> NoCall,
                     result |-> combine_heads(self, x)]
    /\ calls' = calls + 1
    /\ UNCHANGED <<self, ctor, env>>

\* module.scaled_dot_product_attention(Q, K, V, mask)
CallAttention ==
    /\ ctor.status = "ok" /\ calls < MaxCalls /\ env.call = "attention"
    /\ \E Q \in {SpikeQ(env, Input(env.pattern, <<env.batch, self.num_heads, env.seq_q, self.d_k>>))},
          K \in {SpikeK(env, Input(PatK(env), <<env.batch, self.num_heads, env.seq_k, self.d_k>>))},
          V \in {Input(PatV(env), <<env.batch, self.num_heads, env.seq_k, self.d_k>>)},
          mask \in {MaskTensor(env)} :
            last' = [op |-> "scaled_dot_product_attention",
                     Q |-> Q, K |-> K, V |-> V, mask |-> mask,
                     locals |-> sdpa_locals(self, Q, K, V, mask)]
    /\ calls' = calls + 1
    /\ UNCHANGED <<self, ctor, env>>

\* forward that creates the query projection again at every call.
CallForward_recreates ==
    /\ ctor.status = "ok" /\ calls < MaxCalls /\ env.call = "forward"
    /\ \E Q \in {Input(env.pattern, <<env.batch, env.seq_q, self.d_model>>)},
          K \in {Input(PatK(env), <<env.batch, env.seq_k, self.d_model>>)},
          V \in {Input(PatV(env), <<env.batch, env.seq_k, self.d_model>>)},
          mask \in {MaskTensor(env)} :
            last' = [op |-> "forward",
                     Q |-> Q, K |-> K, V |-> V, mask |-> mask,
                     locals |-> forward_locals(self, Q, K, V, mask)]
    /\ calls' = calls + 1
    /\ self' = [self EXCEPT !.Wq = NewLinear(self.d_model, self.d_model, calls + MaxInit + 4)]
    /\ UNCHANGED <<ctor, env>>

\* module(Q, K, V, mask)
CallForward ==
    /\ ctor.status = "ok" /\ calls < MaxCalls /\ env.call = "forward"
    /\ \E Q \in {Input(env.pattern, <<env.batch, env.seq_q, self.d_model>>)},
          K \in {Input(PatK(env), <<env.batch, env.seq_k, self.d_model>>)},
          V \in {Input(PatV(env), <<env.batch, env.seq_k, self.d_model>>)},
          mask \in {MaskTensor(env)} :
            last' = [op |-> "forward",
                     Q |-> Q, K |-> K, V |-> V, mask |-> mask,
                     locals |-> forward_locals(self, Q, K, V, mask)]
    /\ calls' = calls + 1
    /\ UNCHANGED <<self, ctor, env>>

\* The caller's next call passes no mask.
DropMask ==
    /\ ctor.status = "ok" /\ calls < MaxCalls
    /\ env.mask.kind # "none"
    /\ env' = [env EXCEPT !.mask = NoMaskChoice]
    /\ UNCHANGED <<self, ctor, last, calls>>

Next ==
    \/ \E d_model \in 1..MaxDModel, num_heads \in 1..MaxHeads, seed \in 0..MaxInit :
           Construct(d_model, num_heads, seed)
    \/ CallSplitHeads
    \/ CallCombineAfterSplit
    \/ CallCombineHeads
    \/ CallAttention
    \/ CallForward
    \/ DropMask

Spec == Init /\ [][Next]_vars

\* ------------------------------------------------- the two reshapes alone
\* The constructor, split_heads and combine_heads without the attention.
InitHeads ==
    /\ self = NoAttrs
    /\ ctor = NotCalled
    /\ env \in HeadsEnvs
    /\ last = NoCall
    /\ calls = 0

NextHeads ==
    \/ \E d_model \in 1..MaxDModel, num_heads \in 1..MaxHeads, seed \in 0..MaxInit :
           Construct(d_model, num_heads, seed)
    \/ CallSplitHeads
    \/ CallCombineAfterSplit
    \/ CallCombineHeads

SpecHeads == InitHeads /\ [][NextHeads]_vars

\* ------------------------------------------------------- two runs compared
\* The inputs of two runs of the part of forward between the projections:
\* the projected Q, K, V of the first run, and for the second run the same
\* tensors with the width slice of one head of one of them overwritten.
PairEnvs ==
    UNION {[call : {"pair"}, batch : 1..MaxBatch, seq_q : {n}, seq_k : {n},
            pattern : 0..MaxPattern, transposed : {FALSE}, spike : {FALSE},
            mask : MaskChoices(n),
            head : 0..(MaxHeads - 1), which : {"Q", "K", "V"}] : n \in 1..MaxSeq}

\* t with the width slice of head env.head overwritten.
OtherSlice(name, t0) ==
    Bind(t0, LAMBDA t :
        IF env.which # name THEN t
        ELSE MkTensor(t.shape, LAMBDA idx :
                 IF idx[3] \div self.d_k = env.head
                 THEN RInt(PatVal(env.pattern + 3, idx[2] * self.d_model + idx[3] + 1))
                 ELSE At(t, idx)))

InitPair ==
    /\ self = NoAttrs
    /\ ctor = NotCalled
    /\ env \in PairEnvs
    /\ last = NoCall
    /\ calls = 0

\* Lines 123 to 129 of forward, without the projections, run twice.
CallAttendPair ==
    /\ ctor.status = "ok" /\ calls < MaxCalls /\ env.call = "pair"
    /\ env.head < self.num_heads
    /\ \E Q \in {Input(env.pattern, <<env.batch, env.seq_q, self.d_model>>)},
          K \in {Input(PatK(env), <<env.batch, env.seq_k, self.d_model>>)},
          V \in {Input(PatV(env), <<env.batch, env.seq_k, self.d_model>>)},
          mask \in {MaskTensor(env)} :
          \E Q2 \in {OtherSlice("Q", Q)}, K2 \in {OtherSlice("K", K)},
             V2 \in {OtherSlice("V", V)} :
            last' = [op |-> "attend_pair", mask |-> mask,
                     A |-> [Q |-> Q, K |-> K, V |-> V,
                            locals |-> attend_locals(self, Q, K, V, mask)],
                     B |-> [Q |-> Q2, K |-> K2, V |-> V2,
                            locals |-> attend_locals(self, Q2, K2, V2, mask)]]
    /\ calls' = calls + 1
    /\ UNCHANGED <<self, ctor, env>>

NextPair ==
    \/ \E d_model \in 1..MaxDModel, num_heads \in 1..MaxHeads, seed \in 0..MaxInit :
           Construct(d_model, num_heads, seed)
    \/ CallAttendPair

SpecPair == InitPair /\ [][NextPair]_vars

\* ------------------------------------------------------------- properties
AttrNames == {"d_model", "num_heads", "d_k", "Wq", "Wk", "Wv", "Wo"}

\* C1: whenever the constructor was called with d_model % num_heads = 0 it
\* succeeded, the module stores d_model and num_heads as given, and
\* d_k = d_model / num_heads, so d_k * num_heads = d_model.
C1_ConstructionSucceeds ==
    (ctor.status # "none" /\ ctor.d_model % ctor.num_heads = 0) =>
        /\ ctor.status = "ok"
        /\ DOMAIN self = AttrNames
        /\ self.d_model = ctor.d_model
        /\ self.num_heads = ctor.num_heads
        /\ self.d_k * self.num_heads = self.d_model
        /\ self.d_k * ctor.num_heads = ctor.d_model

C1_Witness ==
    /\ ctor.status = "ok"
    /\ ctor.num_heads > 1
    /\ self.d_k > 1

\* C2: whenever the constructor was called with d_model % num_heads # 0 it
\* raised, the object has none of the attributes, and nothing was called on
\* it.
C2_ConstructionFails ==
    (ctor.status # "none" /\ ctor.d_model % ctor.num_heads # 0) =>
        /\ ctor.status = "AssertionError"
        /\ DOMAIN self \cap AttrNames = {}
        /\ last = NoCall
        /\ calls = 0

C2_Witness ==
    /\ ctor.status = "AssertionError"
    /\ ctor.d_model > ctor.num_heads
    /\ ctor.num_heads > 1

\* C3: combine_heads of the result of split_heads(x) has the shape of x,
\* (batch, seq_len, d_model), and the element of x at every index.
C3_SplitCombineIdentity ==
    (last.op = "combine_heads" /\ IsTensor(last.origin)) =>
        /\ IsTensor(last.result)
        /\ last.result.shape = <<env.batch, env.seq_q, self.d_model>>
        /\ SameTensor(last.result, last.origin)

\* The round trip was made with several heads, positions and batch entries,
\* and the tensor between the two calls is not laid out as x is.
C3_Witness ==
    /\ last.op = "combine_heads" /\ IsTensor(last.origin)
    /\ self.num_heads > 1 /\ self.d_k > 1 /\ env.seq_q > 1 /\ env.batch > 1
    /\ env.pattern = 0
    /\ ~IsContiguous(last.x)
    /\ SameTensor(last.result, last.origin)

\* C9: split_heads(x) has shape (batch, num_heads, seq_len, d_k) and its
\* element at (b, h, s, j) is the element of x at (b, s, h * d_k + j).
C9_SplitHeadsRearranges ==
    (last.op = "split_heads") =>
        /\ IsTensor(last.result)
        /\ last.result.shape = <<env.batch, self.num_heads, env.seq_q, self.d_k>>
        /\ \A b \in 0..(env.batch - 1), h \in 0..(self.num_heads - 1),
              p \in 0..(env.seq_q - 1), j \in 0..(self.d_k - 1) :
                At(last.result, <<b, h, p, j>>)
                    = At(last.x, <<b, p, h * self.d_k + j>>)

C9_Witness ==
    /\ last.op = "split_heads"
    /\ self.num_heads > 1 /\ self.d_k > 1 /\ env.seq_q > 1 /\ env.batch > 1
    /\ env.pattern = 0
    /\ IsTensor(last.result)
    /\ At(last.result, <<1, 1, 1, 1>>) = At(last.x, <<1, 1, self.d_k + 1>>)

\* C4: forward without a mask on Q, K, V of one shape (batch, seq_len,
\* d_model) returns a tensor of that shape; the split Q, K, V and the
\* attention output have shape (batch, num_heads, seq_len, d_k), the
\* combined heads (batch, seq_len, d_model).
C4_ForwardShapes ==
    (/\ last.op = "forward" /\ IsNone(last.mask)
     /\ last.K.shape = last.Q.shape /\ last.V.shape = last.Q.shape) =>
        LET flat == <<env.batch, env.seq_q, self.d_model>>
            heads == <<env.batch, self.num_heads, env.seq_q, self.d_k>>
            l == last.locals
        IN  /\ last.Q.shape = flat
            /\ IsTensor(l.Q) /\ l.Q.shape = heads
            /\ IsTensor(l.K) /\ l.K.shape = heads
            /\ IsTensor(l.V) /\ l.V.shape = heads
            /\ IsTensor(l.attn_output) /\ l.attn_output.shape = heads
            /\ IsTensor(l.combined) /\ l.combined.shape = flat
            /\ IsTensor(l.result) /\ l.result.shape = last.Q.shape

C4_Witness ==
    /\ last.op = "forward" /\ IsNone(last.mask)
    /\ last.K.shape = last.Q.shape /\ last.V.shape = last.Q.shape
    /\ self.num_heads > 1 /\ env.seq_q > 1 /\ env.batch > 1
    /\ self.num_heads # env.seq_q
    /\ IsTensor(last.locals.result)
    /\ last.locals.result.shape = <<env.batch, env.seq_q, self.d_model>>

\* C8: once the module is constructed no step changes it: every call of
\* forward, split_heads, combine_heads and scaled_dot_product_attention
\* leaves d_model, num_heads, d_k and the four projections as they were,
\* and adds no attribute.
C8_ModuleUnchanged ==
    [][ctor.status = "ok" => (self' = self /\ ctor' = ctor)]_vars

\* A second forward call was made on the module, which is as constructed.
C8_Witness ==
    /\ ctor.status = "ok" /\ calls = MaxCalls /\ calls > 1
    /\ last.op = "forward"
    /\ DOMAIN self = AttrNames
    /\ self.Wq = NewLinear(ctor.d_model, ctor.d_model, 0)
    /\ self.d_k * ctor.num_heads = ctor.d_model

\* The last call ran scaled_dot_product_attention, directly or in forward.
HasSdpa == last.op \in {"scaled_dot_product_attention", "forward"}

\* Its locals and its arguments Q, K, V (inside forward, the projected and
\* split ones).
Sdpa == IF last.op = "forward" THEN last.locals.inner ELSE last.locals
SdpaQ == IF last.op = "forward" THEN last.locals.Q ELSE last.Q
SdpaK == IF last.op = "forward" THEN last.locals.K ELSE last.K
SdpaV == IF last.op = "forward" THEN last.locals.V ELSE last.V

\* The (batch, head, query) triples and the key positions of the last call.
Triples ==
    {<<b, h, q>> : b \in 0..(env.batch - 1), h \in 0..(self.num_heads - 1),
                   q \in 0..(env.seq_q - 1)}
Keys == 0..(env.seq_k - 1)
Widths == 0..(self.d_k - 1)

RLeq(a, b) == a.n * b.d <= b.n * a.d

FillValue == [i |-> NegFill, f |-> 0]

\* C6: with or without a mask, the attention weights have shape (batch,
\* num_heads, seq_q, seq_k), every weight is non-negative, and for every
\* (batch, head, query) the weights over the key positions sum to 1.
C6_WeightsRowStochastic ==
    HasSdpa =>
        LET w == Sdpa.attention_after_softmax
        IN  /\ IsTensor(w)
            /\ w.shape = <<env.batch, self.num_heads, env.seq_q, env.seq_k>>
            /\ \A t \in Triples :
                  /\ \A k \in Keys : At(w, t \o <<k>>).n >= 0
                  /\ RSum([k \in 1..env.seq_k |-> At(w, t \o <<k - 1>>)]) = RInt(1)

\* Rows over several keys were normalised under a mask, with a weight
\* strictly between 0 and 1, and two queries got different weights.
C6_Witness ==
    /\ HasSdpa /\ env.mask.kind = "mixed"
    /\ env.seq_k > 1 /\ env.seq_q > 1 /\ self.num_heads > 1
    /\ LET w == Sdpa.attention_after_softmax
       IN  /\ \E t \in Triples : At(w, t \o <<0>>).d > 1
           /\ At(w, <<0, 0, 0, 0>>) # At(w, <<0, 0, 1, 0>>)

\* C7: the scores are Q K^T / sqrt(d_k); the tensor that is normalised is
\* the scores with the fill constant at every position where the mask is 0
\* and the score itself elsewhere (the scores themselves when mask is None);
\* the weights are the normalisation of that tensor, so within a row they
\* are between 0 and 1 and ordered as the overwritten scores are; and the
\* result is the product of those weights and V.
C7_MaskBeforeSoftmax ==
    HasSdpa =>
        LET l == Sdpa
            m == last.mask
        IN  /\ IsTensor(l.scores) /\ IsTensor(l.attention)
            /\ IsTensor(l.attention_after_softmax) /\ IsTensor(l.result)
            /\ \A t \in Triples :
                  /\ \A k \in Keys :
                        /\ At(l.scores, t \o <<k>>)
                              = DivSqrt(RSum([j \in 1..self.d_k |->
                                            RMul(At(SdpaQ, t \o <<j - 1>>),
                                                 At(SdpaK, <<t[1], t[2], k, j - 1>>))]),
                                        self.d_k)
                        /\ At(l.attention, t \o <<k>>)
                              = IF IsNone(m) THEN At(l.scores, t \o <<k>>)
                                ELSE IF BroadcastAt(m, t \o <<k>>) = 0 THEN FillValue
                                ELSE At(l.scores, t \o <<k>>)
                        /\ RLeq(RInt(0), At(l.attention_after_softmax, t \o <<k>>))
                        /\ RLeq(At(l.attention_after_softmax, t \o <<k>>), RInt(1))
                  /\ \A k1, k2 \in Keys :
                        ~FixLess(At(l.attention, t \o <<k2>>), At(l.attention, t \o <<k1>>))
                            => RLeq(At(l.attention_after_softmax, t \o <<k1>>),
                                    At(l.attention_after_softmax, t \o <<k2>>))
                  /\ \A j \in Widths :
                        At(l.result, t \o <<j>>)
                            = RSum([k \in 1..env.seq_k |->
                                      RMul(At(l.attention_after_softmax, t \o <<k - 1>>),
                                           At(SdpaV, <<t[1], t[2], k - 1, j>>))])

\* A mask overwrote the largest score of a row and left another one, and
\* the overwritten position got the smaller weight.
C7_Witness ==
    /\ HasSdpa /\ ~IsNone(last.mask) /\ env.seq_k > 1
    /\ \E t \in Triples : \E k1, k2 \in Keys :
          /\ BroadcastAt(last.mask, t \o <<k1>>) = 0
          /\ BroadcastAt(last.mask, t \o <<k2>>) # 0
          /\ FixLess(At(Sdpa.scores, t \o <<k2>>), At(Sdpa.scores, t \o <<k1>>))
          /\ At(Sdpa.attention, t \o <<k1>>) = FillValue
          /\ At(Sdpa.attention, t \o <<k2>>) = At(Sdpa.scores, t \o <<k2>>)
          /\ At(Sdpa.attention_after_softmax, t \o <<k1>>) = RInt(0)
          /\ At(Sdpa.attention_after_softmax, t \o <<k2>>) = RInt(1)

\* The mask of the last call keeps the key position env.mask.key only.
OnlyKeyMask == HasSdpa /\ env.mask.kind = "only"

\* The output at (batch, head, query) t is V at the kept key position.
OutputIsKeptValue(t) ==
    \A j \in Widths :
        At(Sdpa.result, t \o <<j>>) = At(SdpaV, <<t[1], t[2], env.mask.key, j>>)

\* C5 as stated: under a mask that keeps one key position only, the output
\* at every query position is V at that key position.
C5_AsStated == OnlyKeyMask => \A t \in Triples : OutputIsKeptValue(t)

\* C5: under a mask that keeps one key position only, the output at a query
\* position is V at that key position whenever the score of the query at the
\* kept key exceeds the fill constant by more than the range over which exp
\* is not 0.
C5_OneHotAboveFill ==
    OnlyKeyMask =>
        \A t \in Triples :
            (NegFill < At(Sdpa.scores, t \o <<env.mask.key>>).i - ExpUnderflow)
                => OutputIsKeptValue(t)

\* A mask kept one key of several; without it the query would have put
\* weight on another key, whose value differs; the output is the kept value.
C5_Witness ==
    /\ OnlyKeyMask /\ env.seq_k > 1
    /\ \E t \in Triples : \E k \in Keys :
          /\ k # env.mask.key
          /\ NegFill < At(Sdpa.scores, t \o <<env.mask.key>>).i - ExpUnderflow
          /\ ~FixLess(At(Sdpa.scores, t \o <<k>>), At(Sdpa.scores, t \o <<env.mask.key>>))
          /\ \E j \in Widths :
                At(SdpaV, <<t[1], t[2], k, j>>) # At(SdpaV, <<t[1], t[2], env.mask.key, j>>)
          /\ OutputIsKeptValue(t)

\* x and y, of shape (batch, seq, d_model), agree on the width slice
\* [h * d_k, (h + 1) * d_k) at every position.
SliceAgree(x, y, h) ==
    /\ IsTensor(x) /\ IsTensor(y) /\ x.shape = y.shape
    /\ \A b \in 0..(x.shape[1] - 1), p \in 0..(x.shape[2] - 1), j \in Widths :
          At(x, <<b, p, h * self.d_k + j>>) = At(y, <<b, p, h * self.d_k + j>>)

\* C10: of two runs with the same mask, whenever the projected Q, K and V
\* agree on the width slice of head h, the combined attention outputs agree
\* on that slice, whatever the other slices hold.
C10_HeadsIndependent ==
    (last.op = "attend_pair") =>
        \A h \in 0..(self.num_heads - 1) :
            (/\ SliceAgree(last.A.Q, last.B.Q, h)
             /\ SliceAgree(last.A.K, last.B.K, h)
             /\ SliceAgree(last.A.V, last.B.V, h))
                => SliceAgree(last.A.locals.combined, last.B.locals.combined, h)

\* The two runs differ in the inputs and in the output of one head and
\* agree in the inputs and in the output of another.
C10_Witness ==
    /\ last.op = "attend_pair" /\ self.num_heads > 1 /\ self.d_k > 1
    /\ env.seq_k > 1
    /\ \E g, h \in 0..(self.num_heads - 1) :
          /\ g # h
          /\ ~SliceAgree(last.A.K, last.B.K, g)
          /\ ~SliceAgree(last.A.locals.combined, last.B.locals.combined, g)
          /\ SliceAgree(last.A.Q, last.B.Q, h)
          /\ SliceAgree(last.A.K, last.B.K, h)
          /\ SliceAgree(last.A.V, last.B.V, h)
          /\ SliceAgree(last.A.locals.combined, last.B.locals.combined, h)

====
